---- MODULE Spec2Model ----
(***************************************************************************)
(* Model of the Daily Summary Bot (src/send_core.py, src/app.py):          *)
(*   - chunk_text, as the loop it is (one step per paragraph, one step per *)
(*     hard-split window),                                                 *)
(*   - pick_model / detect_language,                                       *)
(*   - summarize_long_document with its backend calls,                     *)
(*   - the Generate / Discard / Send handlers of the Streamlit script.     *)
(* A text is a sequence of one-character strings.                          *)
(***************************************************************************)
EXTENDS Integers, Sequences, FiniteSets, TLC

VARIABLES
    \* a call of chunk_text: its arguments and the state of its loops
    ctext, cmax, cov, cs,
    \* a call of pick_model: the listed models, the preference order passed,
    \* where the call is, and what it returned
    pmodels, pprefs, ppc, presult,
    \* a call of summarize_long_document: its arguments, whether
    \* GEMINI_API_KEY is set, who called, the state of the call, and the calls
    \* it made to the backend functions, in order
    raw_text, force_lang, api_key, caller, sum, calls,
    \* the application: st.session_state, the history table, what each channel
    \* received of the summary generated last, and the handler that ran last
    session, history, email_count, tg_count, last

cvars == <<ctext, cmax, cov, cs>>
pvars == <<pmodels, pprefs, ppc, presult>>
svars == <<raw_text, force_lang, api_key, caller, sum, calls>>
avars == <<session, history, email_count, tg_count, last>>
vars == <<ctext, cmax, cov, cs, pmodels, pprefs, ppc, presult,
          raw_text, force_lang, api_key, caller, sum, calls,
          session, history, email_count, tg_count, last>>

(***************************************************************************)
(* Bounds of the model.                                                    *)
(***************************************************************************)
\* longest text handed to chunk_text in the chunker specification
MaxLen == 5
\* largest max_chars and overlap tried in the chunker specification
MaxMaxChars == 4
MaxOverlap == 4
\* the model follows a hard-split loop for at most this many chunks
MaxChunks == 7
\* longest list of models a listing returns in the pick_model specification
MaxModels == 3
\* longest raw_text of the exhaustive part of the summarizer specification
SumMaxLen == 4
\* summarize_long_document calls chunk_text(raw_text, 12000, 600), cuts a chunk
\* at 14000 characters and the input of the final call at 20000; texts of
\* that size are out of reach, so the model scales the four numbers down,
\* keeping their order (overlap < max_chars <= chunk cut < final cut)
DocOverlap == 1
DocMaxChars == 4
ChunkCeil == 5
FinalCeil == 6
\* the application is followed until the history holds this many records and
\* a channel has received the current summary this many times
MaxHistory == 1
MaxDeliveries == 2

(***************************************************************************)
(* Characters and texts.                                                   *)
(***************************************************************************)
\* "a": a Latin letter, "z": a character of U+4E00..U+9FFF, and the two
\* whitespace characters a text of the application is made of.
Alphabet == {"a", "z", " ", "\n"}

IsSpace(c) == c \in {" ", "\n"}

IsCJK(c) == c = "z"

NL == "\n"

Texts(n) == UNION {[1..k -> Alphabet] : k \in 0..n}

SetMin(S) == CHOOSE x \in S : \A y \in S : x <= y

SetMax(S) == CHOOSE x \in S : \A y \in S : x >= y

\* str.strip()
Strip(s) ==
    LET keep == {i \in 1..Len(s) : ~IsSpace(s[i])}
    IN  IF keep = {} THEN <<>> ELSE SubSeq(s, SetMin(keep), SetMax(keep))

\* s[a:b] with Python's handling of negative and out-of-range indices
PySlice(s, a, b) ==
    LET n  == Len(s)
        lo == IF a < 0 THEN (IF a + n < 0 THEN 0 ELSE a + n) ELSE (IF a > n THEN n ELSE a)
        hi == IF b < 0 THEN (IF b + n < 0 THEN 0 ELSE b + n) ELSE (IF b > n THEN n ELSE b)
    IN  IF lo >= hi THEN <<>> ELSE SubSeq(s, lo + 1, hi)

\* p is a contiguous part of c
Occurs(p, c) ==
    \E o \in 0..(Len(c) - Len(p)) : SubSeq(c, o + 1, o + Len(p)) = p

\* re.split(r"\n{2,}", s): the pieces between maximal runs of two or more newlines
RECURSIVE ReSplit(_)
ReSplit(s) ==
    LET n    == Len(s)
        hits == {i \in 1..(n - 1) : s[i] = NL /\ s[i + 1] = NL}
    IN  IF hits = {} THEN <<s>>
        ELSE LET i    == SetMin(hits)
                 past == {j \in i..n : \A k \in i..j : s[k] = NL}
                 j    == SetMax(past)
             IN  <<SubSeq(s, 1, i - 1)>> \o ReSplit(SubSeq(s, j + 1, n))

\* [p.strip() for p in pieces if p.strip()]
RECURSIVE StripNonBlank(_)
StripNonBlank(ps) ==
    IF ps = <<>> THEN <<>>
    ELSE IF Strip(Head(ps)) = <<>> THEN StripNonBlank(Tail(ps))
         ELSE <<Strip(Head(ps))>> \o StripNonBlank(Tail(ps))

Paragraphs(text) == StripNonBlank(ReSplit(text))

(***************************************************************************)
(* chunk_text                                                              *)
(***************************************************************************)
\* the packing test: len(buf) + len(p) + 2 <= max_chars
FitsNoSeparator(buf, p, max_chars) == Len(buf) + Len(p) <= max_chars

Fits(buf, p, max_chars) == Len(buf) + Len(p) + 2 <= max_chars

\* buf = f"{buf}\n\n{p}".strip()
Pack(buf, p) == Strip(buf \o <<NL, NL>> \o p)

\* flush(): the chunks after it (buf is then reset by the caller below)
FlushDrop(chunks, buf) == chunks

Flush(chunks, buf) ==
    IF Strip(buf) # <<>> THEN Append(chunks, Strip(buf)) ELSE chunks

\* part = p[start:start + max_chars]; chunks.append(part.strip())
Window(p, start, max_chars) == Strip(PySlice(p, start, start + max_chars))

\* start += max_chars - overlap
Advance(start, max_chars, overlap) == start + max_chars - overlap

\* The state of a call: where it is (pc), the paragraphs, the index of the
\* paragraph the for loop is at, buf, chunks, and the hard-split offset.
ChunkBegin(text) ==
    [pc |-> "begin", text |-> text, paras |-> <<>>, i |-> 1, buf |-> <<>>,
     chunks |-> <<>>, start |-> 0]

\* One step of the call: the strip and split, one iteration of the for
\* loop up to the point where it enters the while loop, one iteration of the
\* while loop, or the final flush and return.
ChunkStep(st, max_chars, overlap) ==
    CASE st.pc = "begin" ->
            IF Strip(st.text) = <<>>
            THEN [st EXCEPT !.pc = "done"]
            ELSE [st EXCEPT !.pc = "loop", !.paras = Paragraphs(Strip(st.text))]
      [] st.pc = "loop" ->
            IF st.i > Len(st.paras)
            THEN [st EXCEPT !.pc = "done", !.chunks = Flush(st.chunks, st.buf),
                            !.buf = <<>>]
            ELSE LET p == st.paras[st.i]
                 IN  IF Fits(st.buf, p, max_chars)
                     THEN [st EXCEPT !.buf = Pack(st.buf, p), !.i = st.i + 1]
                     ELSE IF Len(p) <= max_chars
                          THEN [st EXCEPT !.chunks = Flush(st.chunks, st.buf),
                                          !.buf = p, !.i = st.i + 1]
                          ELSE [st EXCEPT !.chunks = Flush(st.chunks, st.buf),
                                          !.buf = <<>>, !.start = 0, !.pc = "hard"]
      [] st.pc = "hard" ->
            LET p == st.paras[st.i]
            IN  IF st.start < Len(p)
                THEN [st EXCEPT
                        !.chunks = Append(st.chunks, Window(p, st.start, max_chars)),
                        !.start = Advance(st.start, max_chars, overlap)]
                ELSE [st EXCEPT !.pc = "loop", !.i = st.i + 1]
      [] OTHER -> st

\* chunk_text(text, max_chars, overlap) as a function: the chunks the call
\* returns (defined where the call returns, that is for overlap < max_chars)
RECURSIVE ChunkRun(_, _, _)
ChunkRun(st, max_chars, overlap) ==
    IF st.pc = "done" THEN st.chunks
    ELSE ChunkRun(ChunkStep(st, max_chars, overlap), max_chars, overlap)

chunk_text(text, max_chars, overlap) == ChunkRun(ChunkBegin(text), max_chars, overlap)

(***************************************************************************)
(* detect_language                                                         *)
(***************************************************************************)
\* ratio >= 0.08, in percent
CjkPercent == 8

CountCJK(text) == Cardinality({i \in 1..Len(text) : IsCJK(text[i])})

detect_language(text) ==
    IF text = <<>> THEN "en"
    ELSE LET total == IF Len(text) > 1 THEN Len(text) ELSE 1
         IN  IF 100 * CountCJK(text) >= CjkPercent * total THEN "zh" ELSE "en"

(***************************************************************************)
(* pick_model                                                              *)
(***************************************************************************)
\* str.lower() on the characters model identifiers are written with here
LowerChar(c) ==
    CASE c = "F" -> "f" [] c = "L" -> "l" [] c = "A" -> "a" [] c = "S" -> "s"
      [] c = "H" -> "h" [] c = "P" -> "p" [] c = "R" -> "r" [] c = "O" -> "o"
      [] OTHER -> c

ToLower(s) == [i \in 1..Len(s) |-> LowerChar(s[i])]

KwFlash == <<"f", "l", "a", "s", "h">>

KwPro == <<"p", "r", "o">>

\* model identifiers a listing may hold
ModelIds ==
    { <<"x">>,
      <<"p", "r", "o">>,
      <<"P", "r", "o", "2">>,
      <<"f", "l", "a", "s", "h">>,
      <<"F", "L", "A", "S", "H", "2">> }

\* the first listed model whose lower-cased identifier contains kw, as a
\* sequence of at most one element
FirstWith(models, kw) ==
    LET hits == {i \in 1..Len(models) : Occurs(kw, ToLower(models[i]))}
    IN  IF hits = {} THEN <<>> ELSE <<models[SetMin(hits)]>>

\* pick_model(preferred_keywords), on the list list_gemini_models returned
\* (never empty: list_gemini_models raises instead)
pick_model(models, preferred_keywords) ==
    IF FirstWith(models, KwFlash) # <<>> THEN FirstWith(models, KwFlash)[1]
    ELSE IF FirstWith(models, KwPro) # <<>> THEN FirstWith(models, KwPro)[1]
         ELSE models[1]

\* preferred_keywords=("flash", "pro")
DefaultKeywords == <<KwFlash, KwPro>>

(***************************************************************************)
(* summarize_long_document and the backend functions it calls              *)
(***************************************************************************)
\* "No content provided."
NoContent ==
    <<"N", "o", " ", "c", "o", "n", "t", "e", "n", "t", " ",
      "p", "r", "o", "v", "i", "d", "e", "d", ".">>

\* the values of force_lang: None, the two tags, and a string that is neither
ForceLangs == {"None", "en", "zh", "fr"}

\* force_lang if force_lang in ("zh", "en") else detected
OutLangDetectedOnly(force, text) == detect_language(text)

OutLang(force, text) ==
    IF force \in {"zh", "en"} THEN force ELSE detect_language(text)

\* the language line of a prompt
LangRule(out_lang) ==
    IF out_lang = "zh" THEN "Respond in Chinese." ELSE "Respond in English."

\* s[:n]
Truncate(s, n) == PySlice(s, 0, n)

\* "\n".join(partials)
RECURSIVE JoinLines(_)
JoinLines(ps) ==
    IF ps = <<>> THEN <<>>
    ELSE IF Len(ps) = 1 THEN ps[1]
         ELSE ps[1] \o <<NL>> \o JoinLines(Tail(ps))

\* len(chunks) <= 1
SinglePassNever(chunks) == Len(chunks) < 1

SinglePass(chunks) == Len(chunks) <= 1

\* what list_gemini_models does for a caller: "Missing GEMINI_API_KEY" before
\* any request when the key is not set, else what the request gives
ListOutcomes(key) ==
    IF key THEN {"ok", "ListModels error", "No Gemini models available"}
    ELSE {"Missing GEMINI_API_KEY"}

\* the same for gemini_generate; "bad response" is the KeyError / IndexError
\* of data["candidates"][0]["content"]["parts"][0]["text"]
GenerateOutcomes(key) ==
    IF key THEN {"ok", "Gemini error", "bad response"}
    ELSE {"Missing GEMINI_API_KEY"}

\* the state of summarize_long_document before it is called
SumNotCalled ==
    [pc |-> "idle", out_lang |-> "", model_name |-> <<>>, chunks |-> <<>>,
     idx |-> 1, partials |-> <<>>, result |-> <<>>, error |-> ""]

\* lines 219-223: the empty-input return, else the language of the run
SummarizeEnterNoShortcut(raw, force) ==
    [SumNotCalled EXCEPT !.pc = "pick", !.out_lang = OutLang(force, raw)]

SummarizeEnter(raw, force) ==
    IF Strip(raw) = <<>>
    THEN [SumNotCalled EXCEPT
            !.pc = "returned",
            !.result = <<[summary |-> NoContent, lang |-> "en",
                          meta |-> [chunks |-> 0]]>>]
    ELSE [SumNotCalled EXCEPT !.pc = "pick", !.out_lang = OutLang(force, raw)]

\* an exception leaves summarize_long_document: nothing is returned
RaisedSwallowed(st, err) ==
    [st EXCEPT !.pc = "returned", !.error = err,
               !.result = <<[summary |-> JoinLines(st.partials),
                             lang |-> st.out_lang,
                             meta |-> [chunks |-> Len(st.chunks)]]>>]

Raised(st, err) == [st EXCEPT !.pc = "raised", !.error = err]

\* return final, out_lang, {"chunks": len(chunks), "model": model_name}
Returned(st, final) ==
    [st EXCEPT !.pc = "returned",
               !.result = <<[summary |-> final, lang |-> st.out_lang,
                             meta |-> [chunks |-> Len(st.chunks),
                                       model |-> st.model_name]]>>]

\* a call of a backend function, as the log keeps it
DiscoverCall(outcome) ==
    [fn |-> "list_gemini_models", mode |-> "discover", lang_rule |-> "",
     text |-> <<>>, idx |-> 0, model |-> <<>>, outcome |-> outcome]

GenerateCall(mode, out_lang, text, idx, model, outcome) ==
    [fn |-> "gemini_generate", mode |-> mode, lang_rule |-> LangRule(out_lang),
     text |-> text, idx |-> idx, model |-> model, outcome |-> outcome]

\* the next index of the map loop: the chunk after this one
NextIndex(idx) == idx + 1

(***************************************************************************)
(* The application (src/app.py)                                            *)
(***************************************************************************)
\* st.session_state: a dictionary; a key that is not set is not in its domain
EmptySession == [k \in {} |-> TRUE]

Has(sess, k) == k \in DOMAIN sess

\* lines 67-70
StoreSummary(sess, res) ==
    [k \in DOMAIN sess \cup {"summary", "lang", "meta", "sent"} |->
        CASE k = "summary" -> res.summary
          [] k = "lang" -> res.lang
          [] k = "meta" -> res.meta
          [] k = "sent" -> FALSE
          [] OTHER -> sess[k]]

\* lines 49-52
PopAll(sess) ==
    [k \in DOMAIN sess \ {"summary", "lang", "meta", "sent"} |-> sess[k]]

\* line 123
MarkSent(sess) ==
    [k \in DOMAIN sess \cup {"sent"} |-> IF k = "sent" THEN TRUE ELSE sess[k]]

\* st.session_state.get("sent")
SentFlag(sess) == Has(sess, "sent") /\ sess["sent"]

\* the handler that ran last and, for Send, what was ticked and what each
\* step of it gave ("skipped": not attempted)
NoHandler ==
    [act |-> "none", confirm |-> FALSE, send_email |-> FALSE, send_tg |-> FALSE,
     email |-> "skipped", telegram |-> "skipped", save |-> "skipped"]

Handler(act) == [NoHandler EXCEPT !.act = act]

(***************************************************************************)
(* States in which a component does not take part                          *)
(***************************************************************************)
ChunkIdle ==
    /\ ctext = <<>> /\ cmax = 1 /\ cov = 0
    /\ cs = [ChunkBegin(<<>>) EXCEPT !.pc = "done"]

PickIdle ==
    /\ pmodels = <<>> /\ pprefs = <<>> /\ ppc = "idle" /\ presult = <<>>

SumIdle ==
    /\ raw_text = <<>> /\ force_lang = "None" /\ api_key = TRUE
    /\ caller = "none" /\ sum = SumNotCalled /\ calls = <<>>

AppIdle ==
    /\ session = EmptySession /\ history = <<>>
    /\ email_count = 0 /\ tg_count = 0 /\ last = NoHandler

(***************************************************************************)
(* Inputs of the summarizer and of the application                         *)
(***************************************************************************)
\* what a successful listing may return, and what a successful generation
\* may return (already stripped); the application, whose handlers do not read
\* the model name or the summary text, is followed with one of each
ModelLists(who) ==
    IF who = "app"
    THEN { << <<"P", "r", "o", "2">>, <<"F", "L", "A", "S", "H", "2">> >> }
    ELSE { << <<"P", "r", "o", "2">>, <<"F", "L", "A", "S", "H", "2">> >>,
           << <<"x">> >> }

Replies(who) ==
    IF who = "app" THEN { <<"a">> } ELSE { <<"a">>, <<"z", "z">> }

Rep(c, n) == [i \in 1..n |-> c]

\* longer documents: one CJK character in 12 and in 13 characters (either
\* side of the 8 percent of detect_language), documents of several
\* paragraphs, and documents of one chunk that are longer than the cut of
\* the final call because of leading whitespace or of blank lines between
\* their paragraphs
LongSamples ==
    { <<"z">> \o Rep("a", 11),
      <<"z">> \o Rep("a", 12),
      <<"a", "a", NL, NL, "z", NL, NL, NL, "a", "a", "a", "a", "a", "a">>,
      Rep(" ", 5) \o <<"a", "a", "a", "a">>,
      <<"a">> \o Rep(NL, 7) \o <<"z">> }

\* the text area and the uploaded file of the application
AppPasted == { <<>>, <<"z", " ">> }

AppFiles == { <<>>, <<NL, "a", "a", "a", "a", "a">> }

(***************************************************************************)
(* Actions of summarize_long_document.  A call is followed from one        *)
(* backend call to the next; when the application is the caller, the       *)
(* handler's lines after the call (67-70) are part of the step in which    *)
(* the call returns, and the locals of the call are gone after it.         *)
(***************************************************************************)
RunOver(st) == st.pc \in {"returned", "raised"}

\* app.py lines 65-74 around a step that leaves the call in state st
AfterSummarize(st) ==
    /\ IF caller = "app" /\ st.pc = "returned"
       THEN /\ session' = StoreSummary(session, st.result[1])
            /\ email_count' = 0
            /\ tg_count' = 0
       ELSE UNCHANGED <<session, email_count, tg_count>>
    /\ last' = IF caller = "app" THEN Handler("generate") ELSE last
    /\ UNCHANGED history

\* the call's state and log after a step: kept for a direct caller, gone
\* with the handler's locals once the application's call is over
Leave(st, log) ==
    /\ IF caller = "app" /\ RunOver(st)
       THEN /\ sum' = SumNotCalled /\ calls' = <<>>
            /\ raw_text' = <<>> /\ force_lang' = "None" /\ api_key' = TRUE
       ELSE /\ sum' = st /\ calls' = log
            /\ UNCHANGED <<raw_text, force_lang, api_key>>
    /\ AfterSummarize(st)
    /\ UNCHANGED <<caller, cvars, pvars>>

\* a direct call: lines 219-223
SumCall ==
    /\ caller = "direct" /\ sum.pc = "idle"
    /\ Leave(SummarizeEnter(raw_text, force_lang), calls)

\* lines 225-229: pick_model() and chunk_text
SumDiscover ==
    /\ sum.pc = "pick"
    /\ \E o \in ListOutcomes(api_key), ms \in ModelLists(caller) :
          LET ch == chunk_text(raw_text, DocMaxChars, DocOverlap)
              st == IF o = "ok"
                    THEN [sum EXCEPT
                            !.model_name = pick_model(ms, DefaultKeywords),
                            !.chunks = ch,
                            !.idx = 1,
                            !.pc = IF SinglePass(ch) THEN "single" ELSE "map"]
                    ELSE Raised(sum, o)
          IN  Leave(st, Append(calls, DiscoverCall(o)))

\* lines 230-231: summarize_condensed(raw_text[:20000], ...)
SumSinglePass ==
    /\ sum.pc = "single"
    /\ \E o \in GenerateOutcomes(api_key), r \in Replies(caller) :
          LET c  == GenerateCall("final", sum.out_lang,
                                 Truncate(raw_text, FinalCeil), 0,
                                 sum.model_name, o)
              st == IF o = "ok" THEN Returned(sum, r) ELSE Raised(sum, o)
          IN  Leave(st, Append(calls, c))

\* lines 236-250: one iteration of the loop over the chunks
SumMapChunk ==
    /\ sum.pc = "map"
    /\ \E o \in GenerateOutcomes(api_key), r \in Replies(caller) :
          LET c  == GenerateCall("chunk", sum.out_lang,
                                 Truncate(sum.chunks[sum.idx], ChunkCeil),
                                 sum.idx, sum.model_name, o)
              st == IF o = "ok"
                    THEN [sum EXCEPT
                            !.partials = Append(sum.partials, r),
                            !.idx = NextIndex(sum.idx),
                            !.pc = IF NextIndex(sum.idx) > Len(sum.chunks)
                                   THEN "reduce" ELSE "map"]
                    ELSE Raised(sum, o)
          IN  Leave(st, Append(calls, c))

\* lines 252-256: the merge and the final call
SumReduce ==
    /\ sum.pc = "reduce"
    /\ \E o \in GenerateOutcomes(api_key), r \in Replies(caller) :
          LET c  == GenerateCall("final", sum.out_lang,
                                 Truncate(JoinLines(sum.partials), FinalCeil), 0,
                                 sum.model_name, o)
              st == IF o = "ok" THEN Returned(sum, r) ELSE Raised(sum, o)
          IN  Leave(st, Append(calls, c))

(***************************************************************************)
(* Actions of the application: one run of the script per click             *)
(***************************************************************************)
\* no run of the script is under way
AtRest == sum.pc = "idle"

\* send_selected: what each channel's send gave; the telegram send is not
\* reached when the email send raised
SendSelected(send_email, send_tg, email_result, tg_result) ==
    LET e == IF send_email THEN email_result ELSE "skipped"
        t == IF send_tg /\ e # "error" THEN tg_result ELSE "skipped"
    IN  [email |-> e, telegram |-> t]

\* save_history is reached: send_selected returned without raising
SaveReachedDespiteTelegram(sent) == sent.email # "error"

SaveReached(sent) == sent.email # "error" /\ sent.telegram # "error"

\* the row save_history inserts (the timestamp and the id left out)
HistoryRow(sess, send_email, send_tg) ==
    [title |-> "title", summary |-> sess["summary"],
     lang |-> IF Has(sess, "lang") THEN sess["lang"] ELSE "en",
     send_email |-> send_email, send_telegram |-> send_tg,
     meta |-> IF Has(sess, "meta") THEN sess["meta"] ELSE EmptySession]

\* lines 48-53
DiscardClicked ==
    /\ caller = "app" /\ AtRest
    /\ session' = PopAll(session)
    /\ last' = Handler("discard")
    /\ UNCHANGED <<history, email_count, tg_count, svars, cvars, pvars>>

\* lines 56-65, up to the first backend call of summarize_long_document;
\* extract_text_from_upload may raise, which ends the run
GenClicked ==
    /\ caller = "app" /\ AtRest
    /\ \E extracted \in BOOLEAN :
          \E pasted \in (IF extracted THEN AppPasted ELSE {<<>>}),
             file_text \in (IF extracted THEN AppFiles ELSE {<<>>}),
             f \in (IF extracted THEN ForceLangs \ {"fr"} ELSE {"None"}),
             key \in (IF extracted THEN BOOLEAN ELSE {TRUE}) :
             LET raw == Strip(Strip(pasted) \o <<NL, NL>> \o Strip(file_text))
             IN  IF ~extracted \/ raw = <<>>
                 THEN /\ last' = Handler("generate")
                      /\ UNCHANGED <<session, history, email_count, tg_count,
                                     svars, cvars, pvars>>
                 ELSE /\ raw_text' = raw
                      /\ force_lang' = f
                      /\ api_key' = key
                      /\ sum' = SummarizeEnter(raw, f)
                      /\ calls' = <<>>
                      /\ AfterSummarize(SummarizeEnter(raw, f))
                      /\ UNCHANGED <<caller, cvars, pvars>>

\* lines 100-126; the button is there when "summary" is in the session state
SendClicked ==
    /\ caller = "app" /\ AtRest
    /\ Has(session, "summary")
    /\ Len(history) < MaxHistory
    /\ email_count < MaxDeliveries /\ tg_count < MaxDeliveries
    /\ \E confirm \in BOOLEAN, send_email \in BOOLEAN, send_tg \in BOOLEAN :
          LET click == [Handler("send") EXCEPT !.confirm = confirm,
                            !.send_email = send_email, !.send_tg = send_tg]
          IN  IF SentFlag(session) \/ ~confirm \/ (~send_email /\ ~send_tg)
              THEN /\ last' = click
                   /\ UNCHANGED <<session, history, email_count, tg_count>>
              ELSE \E er \in (IF send_email THEN {"ok", "error"} ELSE {"ok"}),
                      tr \in (IF send_tg THEN {"ok", "error"} ELSE {"ok"}),
                      sr \in {"ok", "error"} :
                      LET sent  == SendSelected(send_email, send_tg, er, tr)
                          saved == IF SaveReached(sent) THEN sr ELSE "skipped"
                      IN  /\ email_count' = email_count
                                   + (IF sent.email = "ok" THEN 1 ELSE 0)
                          /\ tg_count' = tg_count
                                   + (IF sent.telegram = "ok" THEN 1 ELSE 0)
                          /\ history' =
                                IF saved = "ok"
                                THEN Append(history,
                                       HistoryRow(session, send_email, send_tg))
                                ELSE history
                          /\ session' = IF saved = "ok" THEN MarkSent(session)
                                        ELSE session
                          /\ last' = [click EXCEPT !.email = sent.email,
                                         !.telegram = sent.telegram,
                                         !.save = saved]
    /\ UNCHANGED <<svars, cvars, pvars>>

(***************************************************************************)
(* A call of pick_model with a preference order                            *)
(***************************************************************************)
ModelListings == UNION {[1..n -> ModelIds] : n \in 1..MaxModels}

PreferenceOrders == {<<KwFlash, KwPro>>, <<KwPro, KwFlash>>, <<KwPro>>}

PickCall ==
    /\ ppc = "called"
    /\ presult' = <<pick_model(pmodels, pprefs)>>
    /\ ppc' = "returned"
    /\ UNCHANGED <<pmodels, pprefs, cvars, svars, avars>>

(***************************************************************************)
(* Specifications                                                          *)
(***************************************************************************)
\* pick_model on any listing and preference order
PickInit ==
    /\ pmodels \in ModelListings
    /\ pprefs \in PreferenceOrders
    /\ ppc = "called" /\ presult = <<>>
    /\ ChunkIdle /\ SumIdle /\ AppIdle

SpecPick == PickInit /\ [][PickCall]_vars

\* summarize_long_document called directly on any raw_text and force_lang
SumInit ==
    /\ raw_text \in Texts(SumMaxLen) \cup LongSamples
    /\ force_lang \in ForceLangs
    /\ api_key \in BOOLEAN
    /\ caller = "direct" /\ sum = SumNotCalled /\ calls = <<>>
    /\ ChunkIdle /\ PickIdle /\ AppIdle

SumNext == SumCall \/ SumDiscover \/ SumSinglePass \/ SumMapChunk \/ SumReduce

SpecSum == SumInit /\ [][SumNext]_vars

\* the application: any sequence of clicks
AppInit ==
    /\ raw_text = <<>> /\ force_lang = "None" /\ api_key = TRUE
    /\ caller = "app" /\ sum = SumNotCalled /\ calls = <<>>
    /\ AppIdle /\ ChunkIdle /\ PickIdle

AppNext ==
    \/ GenClicked \/ DiscardClicked \/ SendClicked
    \/ SumDiscover \/ SumSinglePass \/ SumMapChunk \/ SumReduce

SpecApp == AppInit /\ [][AppNext]_vars

Spec == SpecApp

(***************************************************************************)
(* The chunker specification: a call of chunk_text on any text of at most  *)
(* MaxLen characters, any max_chars >= 1 and any overlap >= 0.             *)
(***************************************************************************)
ChunkInit ==
    /\ ctext \in Texts(MaxLen)
    /\ cmax \in 1..MaxMaxChars
    /\ cov \in 0..MaxOverlap
    /\ cs = ChunkBegin(ctext)
    /\ PickIdle /\ SumIdle /\ AppIdle

ChunkSplit ==
    /\ cs.pc = "begin"
    /\ cs' = ChunkStep(cs, cmax, cov)
    /\ UNCHANGED <<ctext, cmax, cov, pvars, svars, avars>>

ChunkParagraph ==
    /\ cs.pc = "loop"
    /\ cs' = ChunkStep(cs, cmax, cov)
    /\ UNCHANGED <<ctext, cmax, cov, pvars, svars, avars>>

ChunkHardSplit ==
    /\ cs.pc = "hard"
    /\ Len(cs.chunks) < MaxChunks
    /\ cs' = ChunkStep(cs, cmax, cov)
    /\ UNCHANGED <<ctext, cmax, cov, pvars, svars, avars>>

ChunkNext == ChunkSplit \/ ChunkParagraph \/ ChunkHardSplit

SpecChunk == ChunkInit /\ [][ChunkNext]_vars

(***************************************************************************)
(* Properties of chunk_text.                                               *)
(***************************************************************************)
ChunkReturned == cs.pc = "done"

ValidOverlap == cov < cmax

\* the paragraphs chunk_text works on
InputParas == Paragraphs(Strip(ctext))

\* C1: for max_chars >= 1 and 0 <= overlap < max_chars every chunk of
\* chunk_text (packed with the 2-character separator, carried over after a
\* flush, or a hard-split window) has at most max_chars characters; so has
\* the buffer the chunks are flushed from.
C1_ChunkWithinMax ==
    ValidOverlap =>
        /\ \A k \in 1..Len(cs.chunks) : Len(cs.chunks[k]) <= cmax
        /\ Len(cs.buf) <= cmax

\* a call that returned a chunk of exactly max_chars characters made of two
\* paragraphs packed with the separator
C1_Witness ==
    /\ ChunkReturned /\ ValidOverlap
    /\ Len(InputParas) = 2
    /\ \E k \in 1..Len(cs.chunks) :
          /\ Len(cs.chunks[k]) = cmax
          /\ Occurs(<<NL, NL>>, cs.chunks[k])

\* C7: with overlap >= max_chars chunk_text fails fast instead of looping:
\* for every input, also one with a paragraph longer than max_chars, the
\* call never goes round the hard-split loop.
C7_FailsFast ==
    [][(cov >= cmax /\ cs.pc = "hard") => cs'.pc # "hard"]_vars

\* character k of paragraph p is in a chunk that holds the whole paragraph
\* or is a window of p over position k
CoveredAt(p, k, chunks) ==
    \E j \in 1..Len(chunks) :
        \/ Occurs(p, chunks[j])
        \/ \E a \in 1..k : \E b \in k..Len(p) : chunks[j] = SubSeq(p, a, b)

\* the non-whitespace characters of s, in order
RECURSIVE Letters(_)
Letters(s) ==
    IF s = <<>> THEN <<>>
    ELSE IF IsSpace(Head(s)) THEN Letters(Tail(s))
         ELSE <<Head(s)>> \o Letters(Tail(s))

RECURSIVE Concat(_)
Concat(ss) == IF ss = <<>> THEN <<>> ELSE Head(ss) \o Concat(Tail(ss))

\* s can be obtained from t by deleting characters
RECURSIVE Scattered(_, _)
Scattered(s, t) ==
    IF s = <<>> THEN TRUE
    ELSE IF t = <<>> THEN FALSE
         ELSE IF Head(s) = Head(t) THEN Scattered(Tail(s), Tail(t))
              ELSE Scattered(s, Tail(t))

\* paragraphs a..b joined by the 2-newline separator
RECURSIVE JoinParas(_, _, _)
JoinParas(ps, a, b) ==
    IF a > b THEN <<>>
    ELSE IF a = b THEN ps[a]
         ELSE ps[a] \o <<NL, NL>> \o JoinParas(ps, a + 1, b)

\* a chunk holds nothing but input: consecutive paragraphs joined by the
\* separator, or a part of one paragraph
FromInput(c, ps) ==
    \/ \E a \in 1..Len(ps) : \E b \in a..Len(ps) : c = JoinParas(ps, a, b)
    \/ \E a \in 1..Len(ps) : Occurs(c, ps[a])

\* paragraphs come out in their order and the chunks hold only input
OrderedAndFromInput ==
    /\ Scattered(Letters(Concat(InputParas)), Letters(Concat(cs.chunks)))
    /\ cov = 0 => Letters(Concat(InputParas)) = Letters(Concat(cs.chunks))
    /\ \A j \in 1..Len(cs.chunks) : FromInput(cs.chunks[j], InputParas)

C10_HardSplitWindows ==
    (ChunkReturned /\ ValidOverlap /\ Len(InputParas) = 1
        /\ Len(InputParas[1]) > cmax) =>
        LET p  == InputParas[1]
            w  == cs.chunks
            n  == Len(w)
            s  == cmax - cov
            from(k) == (k - 1) * s
            upto(k) == from(k) + Len(w[k])
        IN  /\ \A k \in 1..n : w[k] = SubSeq(p, from(k) + 1, upto(k))
            /\ \A k \in 1..(n - 1) : Len(w[k]) = cmax
            /\ \A k \in 1..(n - 1) :
                  (IF upto(k) < upto(k + 1) THEN upto(k) ELSE upto(k + 1))
                      - from(k + 1) = cov
            /\ \A k \in 2..n : upto(k) > upto(k - 1)
            /\ \A k \in 1..n : Len(w[k]) > 0

(***************************************************************************)
(* Properties of pick_model.                                               *)
(***************************************************************************)
\* the choice the preference order asks for: the first listed model with the
\* earliest keyword of the order that any listed model contains, else the
\* first listed model
PreferredChoice(models, preferred_keywords) ==
    LET hits == {k \in 1..Len(preferred_keywords) :
                    FirstWith(models, preferred_keywords[k]) # <<>>}
    IN  IF hits = {} THEN models[1]
        ELSE FirstWith(models, preferred_keywords[SetMin(hits)])[1]

\* C6: pick_model returns the choice its preference order asks for, for the
\* default order and for any other order passed.
C6_FollowsPreferenceOrder ==
    ppc = "returned" => presult = <<PreferredChoice(pmodels, pprefs)>>

(***************************************************************************)
(* Properties of summarize_long_document.                                  *)
(***************************************************************************)
DirectCall == caller = "direct"

\* the chunks of the document, N of them
DocChunks == chunk_text(raw_text, DocMaxChars, DocOverlap)

Blank(text) == \A i \in 1..Len(text) : IsSpace(text[i])

SumReturned == DirectCall /\ sum.pc = "returned"

SumRaised == DirectCall /\ sum.pc = "raised"

\* C2: after the discovery call a non-empty document of N chunks gets N
\* chunk-mode calls, chunk i in call i, then one final-mode call (N > 1), or
\* one final-mode call alone (N = 1); the final-mode call is the last call
\* and the returned chunk count is N.
C2_CallSequence ==
    (DirectCall /\ ~Blank(raw_text)) =>
        LET N == Len(DocChunks)
            total == IF N > 1 THEN N + 2 ELSE 2
        IN  /\ Len(calls) <= total
            /\ \A k \in 1..Len(calls) :
                  /\ (k = 1) <=> (calls[k].mode = "discover")
                  /\ (k = total) <=> (calls[k].mode = "final")
                  /\ (1 < k /\ k < total) =>
                        /\ calls[k].mode = "chunk"
                        /\ calls[k].idx = k - 1
                        /\ calls[k].text = Truncate(DocChunks[k - 1], ChunkCeil)
            /\ sum.pc = "returned" =>
                  /\ Len(calls) = total
                  /\ sum.result[1].meta.chunks = N

\* a returned run over at least three chunks, and so of at least five calls
C2_Witness ==
    /\ SumReturned /\ Len(DocChunks) >= 3
    /\ Len(calls) = Len(DocChunks) + 2

\* C3: a failing call ends the run: the error leaves the function, nothing
\* is returned, and no call follows the failing one; a result is returned
\* only when every call of the run succeeded.
C3_AllOrNothing ==
    DirectCall =>
        /\ \A k \in 1..(Len(calls) - 1) : calls[k].outcome = "ok"
        /\ sum.pc = "raised" =>
              /\ sum.result = <<>>
              /\ calls # <<>>
              /\ calls[Len(calls)].outcome # "ok"
              /\ sum.error = calls[Len(calls)].outcome
        /\ sum.result # <<>> =>
              /\ sum.pc = "returned"
              /\ \A k \in 1..Len(calls) : calls[k].outcome = "ok"
        /\ (\E k \in 1..Len(calls) : calls[k].outcome # "ok") => sum.pc = "raised"

\* a run that failed on its second chunk
C3_Witness ==
    /\ SumRaised /\ Len(calls) = 3
    /\ calls[3].mode = "chunk" /\ calls[3].idx = 2
    /\ calls[3].outcome = "Gemini error"

\* C4: for empty or whitespace-only raw_text the call returns
\* ("No content provided.", "en", chunk count 0) without any backend call,
\* credential or not; and chunk count 0 is returned for such input only.
C4_EmptyInput ==
    (DirectCall /\ sum.pc # "idle") =>
        /\ Blank(raw_text) =>
              /\ sum.pc = "returned"
              /\ sum.result = <<[summary |-> NoContent, lang |-> "en",
                                 meta |-> [chunks |-> 0]]>>
              /\ calls = <<>>
        /\ (sum.pc = "returned" /\ sum.result[1].meta.chunks = 0) =>
              Blank(raw_text)

\* whitespace-only input, no credential, returned
C4_Witness ==
    /\ SumReturned /\ raw_text # <<>> /\ Blank(raw_text) /\ ~api_key
    /\ sum.result[1].summary = NoContent

\* the tag the claim names
ClaimedLang ==
    IF force_lang \in {"en", "zh"} THEN force_lang
    ELSE detect_language(raw_text)

\* every generation call made so far carries the directive of the tag
PromptsCarry(lang) ==
    \A k \in 1..Len(calls) :
        calls[k].fn = "gemini_generate" => calls[k].lang_rule = LangRule(lang)

\* C5 (as stated): for every raw_text the returned tag is forced_lang when
\* that is en or zh, else detect_language(raw_text), and the prompts of the
\* run carry that tag's directive.
C5_LanguageTag ==
    DirectCall =>
        /\ sum.pc = "returned" => sum.result[1].lang = ClaimedLang
        /\ PromptsCarry(ClaimedLang)

\* C5 (amended): the same for every raw_text that is not empty or
\* whitespace-only; for empty or whitespace-only raw_text the tag is en
\* whatever forced_lang is.
C5_LanguageTagNonBlank ==
    DirectCall =>
        /\ (sum.pc = "returned" /\ ~Blank(raw_text)) =>
              sum.result[1].lang = ClaimedLang
        /\ (sum.pc = "returned" /\ Blank(raw_text)) => sum.result[1].lang = "en"
        /\ PromptsCarry(ClaimedLang)

\* a Chinese-script document of several chunks, forced to en, returned
C5_Witness ==
    /\ SumReturned /\ force_lang = "en" /\ detect_language(raw_text) = "zh"
    /\ Len(calls) >= 4 /\ sum.result[1].lang = "en"

\* C11: on the single-pass path (chunk_text returns one chunk) the text of
\* the final-mode call holds the whole content of that chunk: every
\* paragraph of the document is in it, whatever whitespace leads the
\* document or separates its paragraphs.
C11_SinglePassKeepsChunk ==
    (DirectCall /\ Len(DocChunks) = 1 /\ Len(calls) >= 2) =>
        LET paras == Paragraphs(Strip(raw_text))
        IN  /\ calls[2].mode = "final"
            /\ \A i \in 1..Len(paras) : Occurs(paras[i], calls[2].text)

(***************************************************************************)
(* Properties of the application.                                          *)
(***************************************************************************)
\* C9: a history record is written only by a Send click that was confirmed,
\* had a channel selected, and whose selected channels were all sent without
\* error in that click; never by a blocked or failed send, a Generate, a
\* Discard, or a step of summarize_long_document.
C9_HistoryOnlyAfterSend ==
    [][history' # history =>
          /\ AtRest /\ Has(session, "summary") /\ ~SentFlag(session)
          /\ last'.act = "send" /\ last'.confirm
          /\ last'.send_email \/ last'.send_tg
          /\ last'.send_email =>
                (last'.email = "ok" /\ email_count' = email_count + 1)
          /\ last'.send_tg =>
                (last'.telegram = "ok" /\ tg_count' = tg_count + 1)
          /\ history' = Append(history,
                HistoryRow(session, last'.send_email, last'.send_tg))]_vars

\* a record written by a Send of both channels
C9_Witness ==
    /\ Len(history) = 1 /\ last.act = "send" /\ last.save = "ok"
    /\ history[1].send_email /\ history[1].send_telegram
    /\ email_count = 1 /\ tg_count = 1

\* C12: a generated summary is delivered at most once per channel: over any
\* sequence of Send clicks on the same generated summary, also after a send
\* in which a later step failed, neither the email channel nor the Telegram
\* channel receives it a second time.
C12_AtMostOncePerChannel ==
    caller = "app" => (email_count <= 1 /\ tg_count <= 1)

====
